---- MODULE Spec2Model ----
(***************************************************************************)
(* Model of the trace! macro of eztrace (src/eztrace.rs).                  *)
(*                                                                         *)
(* A call site is a token shape: the optional leading #, the argument      *)
(* expressions, the optional trailing comma, and the place of the call.    *)
(* The macro's rules turn the shape into one println! invocation (a format *)
(* string and a list of borrowed arguments) or match no rule.  println!    *)
(* is modelled by what it does with what the macro hands it: it reads the  *)
(* format string character by character ({{ and }} are escapes, {...} is   *)
(* a directive), evaluates the arguments once, left to right, and then     *)
(* renders them.  Strings are sequences of one-character strings.          *)
(***************************************************************************)
EXTENDS Naturals, Sequences, FiniteSets

VARIABLES n, string, rec

vars == <<n, string, rec>>

(* ------------------------------ bounds --------------------------------- *)

\* longest argument list a call site of the model writes
MaxArgs == 2
\* the counter `n` is not driven beyond this value
MaxN == 2

(* --------------------------- character data ---------------------------- *)

Digit == <<"0", "1", "2", "3", "4", "5", "6", "7", "8", "9">>

RECURSIVE DecStr(_)
\* decimal rendering of an unsigned integer (Display and Debug agree)
DecStr(k) ==
    IF k < 10 THEN <<Digit[k + 1]>>
    ELSE DecStr(k \div 10) \o <<Digit[(k % 10) + 1]>>

Quote == "\""

hello_chars == <<"h", "e", "l", "l", "o">>
hey_chars == <<"h", "e", "y">>
braces_chars == <<"{", "{">>

(* ------------------------------- values -------------------------------- *)

IntVal(k) == [ty |-> "int", i |-> k, s |-> <<>>]
StrVal(cs) == [ty |-> "str", i |-> 0, s |-> cs]
StringVal(cs) == [ty |-> "String", i |-> 0, s |-> cs]
UnitVal == [ty |-> "unit", i |-> 0, s |-> <<>>]
CoordsVal == [ty |-> "Coords", i |-> 0, s |-> <<>>]

\* types of the model that implement Display
HasDisplay(ty) == ty \in {"int", "str", "String"}

RECURSIVE EscapeDebug(_)
\* the escaping Debug applies inside the quotes of a string
EscapeDebug(cs) ==
    IF cs = <<>> THEN <<>>
    ELSE LET c == Head(cs)
             e == IF c = Quote THEN <<"\\", Quote>>
                  ELSE IF c = "\\" THEN <<"\\", "\\">>
                  ELSE <<c>>
         IN e \o EscapeDebug(Tail(cs))

\* "{}" : Display
Display(v) ==
    IF v.ty = "int" THEN DecStr(v.i) ELSE v.s

CoordsCompact ==
    <<"C", "o", "o", "r", "d", "s", " ", "{", " ",
      "x", ":", " ", "0", ".", "0", ",", " ",
      "y", ":", " ", "0", ".", "0", " ", "}">>

CoordsPretty ==
    <<"C", "o", "o", "r", "d", "s", " ", "{", "\n",
      " ", " ", " ", " ", "x", ":", " ", "0", ".", "0", ",", "\n",
      " ", " ", " ", " ", "y", ":", " ", "0", ".", "0", ",", "\n",
      "}">>

\* "{:?}" : compact Debug
Debug(v) ==
    CASE v.ty = "int" -> DecStr(v.i)
      [] v.ty \in {"str", "String"} -> <<Quote>> \o EscapeDebug(v.s) \o <<Quote>>
      [] v.ty = "unit" -> <<"(", ")">>
      [] v.ty = "Coords" -> CoordsCompact

\* "{:#?}" : pretty Debug
PrettyDebug(v) ==
    IF v.ty = "Coords" THEN CoordsPretty ELSE Debug(v)

Render(mode, v) ==
    CASE mode = "display" -> Display(v)
      [] mode = "debug" -> Debug(v)
      [] mode = "pretty" -> PrettyDebug(v)

(* ------------------------ argument expressions ------------------------- *)

\* An argument expression as the caller writes it: `text` is what
\* stringify! yields for it, `literal` says whether the token matches the
\* `literal` fragment specifier.
Expr(id, text, literal) == [id |-> id, text |-> text, literal |-> literal]

e_a == Expr("a", <<"a">>, FALSE)
e_hello == Expr("hello", hello_chars, FALSE)
e_lit_hello == Expr("lit_hello", <<Quote>> \o hello_chars \o <<Quote>>, TRUE)
e_0xED == Expr("0xED", <<"0", "x", "E", "D">>, TRUE)
e_string == Expr("string", <<"s", "t", "r", "i", "n", "g">>, FALSE)
e_incr == Expr("incr", <<"i", "n", "c", "r", "(", "&", "m", "u", "t", " ", "n", ")">>, FALSE)
e_n == Expr("n", <<"n">>, FALSE)
e_zero == Expr("zero", <<"z", "e", "r", "o">>, FALSE)
\* a string literal whose text holds braces: "{{"
e_lit_braces == Expr("lit_braces", <<Quote>> \o braces_chars \o <<Quote>>, TRUE)
\* a block expression: { a }
e_block == Expr("block", <<"{", " ", "a", " ", "}">>, FALSE)

Exprs ==
    {e_a, e_hello, e_lit_hello, e_0xED, e_string, e_incr, e_n, e_zero,
     e_lit_braces, e_block}

IsStringLiteral(e) == e.literal /\ Head(e.text) = Quote

\* static type of an expression
TypeOf(e) ==
    CASE e.id \in {"a", "0xED", "n", "block"} -> "int"
      [] e.id \in {"hello", "lit_hello", "lit_braces"} -> "str"
      [] e.id = "string" -> "String"
      [] e.id = "incr" -> "unit"
      [] e.id = "zero" -> "Coords"

\* The caller's state an evaluation reads and writes: the counter `n` and
\* the non-Copy variable `string`.
Store(cn, cstring) == [n |-> cn, string |-> cstring]

\* One evaluation of expression e, handed over the way `pass` says:
\* "ref" is `&e`, "direct" is `e` as a println! operand (format_args!
\* borrows it), "bound" is `e` bound by value to a temporary.
\* Yields the store after the evaluation and the value.
Evaluate(e, pass, st) ==
    CASE e.id = "a" -> [ok |-> TRUE, st |-> st, val |-> IntVal(3)]
      [] e.id = "block" -> [ok |-> TRUE, st |-> st, val |-> IntVal(3)]
      [] e.id = "0xED" -> [ok |-> TRUE, st |-> st, val |-> IntVal(237)]
      [] e.id = "hello" -> [ok |-> TRUE, st |-> st, val |-> StrVal(hello_chars)]
      [] e.id = "lit_hello" -> [ok |-> TRUE, st |-> st, val |-> StrVal(hello_chars)]
      [] e.id = "lit_braces" -> [ok |-> TRUE, st |-> st, val |-> StrVal(braces_chars)]
      [] e.id = "zero" -> [ok |-> TRUE, st |-> st, val |-> CoordsVal]
      [] e.id = "n" -> [ok |-> TRUE, st |-> st, val |-> IntVal(st.n)]
      [] e.id = "incr" ->
            [ok |-> TRUE, st |-> [st EXCEPT !.n = @ + 1], val |-> UnitVal]
      [] e.id = "string" ->
            [ok |-> st.string.owned,
             st |-> IF pass = "bound"
                    THEN [st EXCEPT !.string.owned = FALSE]
                    ELSE st,
             val |-> StringVal(st.string.val)]

(* ------------------------------ call sites ----------------------------- *)

File == <<"e", "z", "t", "r", "a", "c", "e", ".", "r", "s">>

\* lines of the zero-argument calls of the test module
CallLines == {168, 205}

Sites == [file : {File}, line : CallLines]

RECURSIVE SeqsUpTo(_, _)
\* all sequences over S of length at most k
SeqsUpTo(S, k) ==
    IF k = 0 THEN {<<>>}
    ELSE LET shorter == SeqsUpTo(S, k - 1)
         IN shorter \cup {Append(q, x) : q \in shorter, x \in S}

ArgLists == SeqsUpTo(Exprs, MaxArgs)

\* the token shape of one call: trace!( [#] e1, ..., eN [,] )
Calls == [pretty : BOOLEAN, args : ArgLists, comma : BOOLEAN, site : Sites]

(* --------------------------- the macro's rules ------------------------- *)

\* a rule's right-hand side: the println! it expands to, or no rule at all
Expansion(shape, fmt, pargs) == [shape |-> shape, fmt |-> fmt, pargs |-> pargs]
NoRule == Expansion("none", <<>>, <<>>)

\* an operand of println!: the expression and how it is handed over
Operand(e, pass) == [expr |-> e, pass |-> pass]

\* the location without its line number
LineRuleNoLine(site) == site.file \o <<":">>

\* (@line): concat!(file!(), ":", line!())
LineRule(site) == site.file \o <<":">> \o DecStr(site.line)

RECURSIVE StringifyTail(_)
\* the repetition of (@stringify): ", ", stringify!($IT), for each $IT
StringifyTail(es) ==
    IF es = <<>> THEN <<>>
    ELSE <<",", " ">> \o Head(es).text \o StringifyTail(Tail(es))

\* (@stringify $HEAD:expr, $($IT:expr,)*): needs a $HEAD
StringifyMatches(es) == es # <<>>
StringifyRule(es) == Head(es).text \o StringifyTail(Tail(es))

\* (@fmtcode $_:expr)
FmtCode == <<" ", "{", ":", "?", "}">>
\* the pretty code written as the compact one
PrettyFmtCodeCompact == <<" ", "{", ":", "?", "}">>

\* (@#fmtcode $_:expr)
PrettyFmtCode == <<" ", "{", ":", "#", "?", "}">>

RECURSIVE FmtCodes(_, _)
\* $(trace!(@fmtcode $IT)),* : one code per argument
FmtCodes(es, code) ==
    IF es = <<>> THEN <<>> ELSE code \o FmtCodes(Tail(es), code)

\* (@fmt $($IT:expr),*)
FmtRule(es) == StringifyRule(es) \o <<":">> \o FmtCodes(es, FmtCode)
\* (@#fmt $($IT:expr),*)
PrettyFmtRule(es) == StringifyRule(es) \o <<":">> \o FmtCodes(es, PrettyFmtCode)

\* the argument bound by value to a temporary instead of borrowed
MoveArg(e) == Operand(e, "bound")

\* $(&$IT),* : every argument is handed to println! behind a reference
BorrowArg(e) == Operand(e, "ref")

\* (#$label:literal) => println!("{:?}", $label)
PrettyLabelRule(e) ==
    Expansion("label", <<"{", ":", "?", "}">>, <<Operand(e, "direct")>>)
\* the label printed with the Debug code
LabelRuleDebug(e) ==
    Expansion("label", <<"{", ":", "?", "}">>, <<Operand(e, "direct")>>)

\* ($label:literal) => println!("{}", $label)
LabelRule(e) ==
    Expansion("label", <<"{", "}">>, <<Operand(e, "direct")>>)

\* (#$($IT:expr),* $(,)?) and ($($IT:expr),* $(,)?)
GeneralRule(pretty, es) ==
    IF ~StringifyMatches(es) THEN NoRule
    ELSE Expansion("general",
                   IF pretty THEN PrettyFmtRule(es) ELSE FmtRule(es),
                   [k \in 1..Len(es) |-> BorrowArg(es[k])])

\* () matches only the empty token list
EmptyMatches(c) == ~c.pretty /\ c.args = <<>> /\ ~c.comma
\* the macro without its (#) rule
PrettyEmptyNever(c) == FALSE

\* (#) matches only a lone #
PrettyEmptyMatches(c) == c.pretty /\ c.args = <<>> /\ ~c.comma
\* the label rules take one `literal` token and no trailing comma
LabelMatches(c) == Len(c.args) = 1 /\ c.args[1].literal /\ ~c.comma

\* The rules of trace!, tried from the top.
Expand(c) ==
    IF EmptyMatches(c) THEN Expansion("line", LineRule(c.site), <<>>)
    ELSE IF PrettyEmptyMatches(c) THEN Expansion("line", LineRule(c.site), <<>>)
    ELSE IF LabelMatches(c) THEN
        IF c.pretty THEN PrettyLabelRule(c.args[1]) ELSE LabelRule(c.args[1])
    ELSE GeneralRule(c.pretty, c.args)

(* ------------------------------- println! ------------------------------ *)

IsSpace(c) == c = " " \/ c = "\n"

RECURSIVE CloseIdx(_, _)
\* index of the first "}" of f at or after i, 0 when there is none
CloseIdx(f, i) ==
    IF i > Len(f) THEN 0
    ELSE IF f[i] = "}" THEN i
    ELSE CloseIdx(f, i + 1)

RECURSIVE RStrip(_)
RStrip(cs) ==
    IF cs # <<>> /\ IsSpace(cs[Len(cs)]) THEN RStrip(SubSeq(cs, 1, Len(cs) - 1))
    ELSE cs

\* The directive between a "{" and its "}": nothing is Display, ":?" is
\* Debug, ":#?" is pretty Debug, each with optional blanks before the "}".
\* Any other content the texts of the model can put there is not a
\* directive the format-string parser accepts.
DirectiveMode(content) ==
    LET core == RStrip(content)
    IN CASE core = <<>> -> "display"
         [] core = <<":", "?">> -> "debug"
         [] core = <<":", "#", "?">> -> "pretty"
         [] OTHER -> "invalid"

LitPiece(c) == [kind |-> "lit", c |-> c, mode |-> "none"]
ArgPiece(mode) == [kind |-> "arg", c |-> "", mode |-> mode]

RECURSIVE ParseFormat(_, _, _)
\* Reads format string f from index i on.  "{{" and "}}" are the escapes of
\* the two braces, "{" opens a directive that runs to the next "}", a lone
\* "}" is an error.
ParseFormat(f, i, acc) ==
    IF i > Len(f) THEN [ok |-> TRUE, pieces |-> acc]
    ELSE IF f[i] = "{" THEN
        IF i < Len(f) /\ f[i + 1] = "{"
        THEN ParseFormat(f, i + 2, Append(acc, LitPiece("{")))
        ELSE LET j == CloseIdx(f, i + 1)
                 mode == DirectiveMode(SubSeq(f, i + 1, j - 1))
             IN IF j = 0 \/ mode = "invalid"
                THEN [ok |-> FALSE, pieces |-> acc]
                ELSE ParseFormat(f, j + 1, Append(acc, ArgPiece(mode)))
    ELSE IF f[i] = "}" THEN
        IF i < Len(f) /\ f[i + 1] = "}"
        THEN ParseFormat(f, i + 2, Append(acc, LitPiece("}")))
        ELSE [ok |-> FALSE, pieces |-> acc]
    ELSE ParseFormat(f, i + 1, Append(acc, LitPiece(f[i])))

RECURSIVE ArgModes(_)
\* the modes of the directives, in the order of the format string; the
\* k-th directive takes the k-th operand
ArgModes(pieces) ==
    IF pieces = <<>> THEN <<>>
    ELSE IF Head(pieces).kind = "arg"
    THEN <<Head(pieces).mode>> \o ArgModes(Tail(pieces))
    ELSE ArgModes(Tail(pieces))

\* a shared borrow of `n` is still held by an earlier operand when a later
\* operand takes `&mut n`
BorrowOk(pargs) ==
    ~ \E i, j \in 1..Len(pargs) :
        i < j /\ pargs[i].expr.id = "n" /\ pargs[j].expr.id = "incr"

RECURSIVE EvalArgsTwice(_, _, _, _, _)
\* every operand evaluated twice, as a macro that expands $IT in two places
EvalArgsTwice(pargs, k, st, vals, log) ==
    IF k > Len(pargs) THEN [ok |-> TRUE, st |-> st, vals |-> vals, log |-> log]
    ELSE LET ev1 == Evaluate(pargs[k].expr, pargs[k].pass, st)
             ev == Evaluate(pargs[k].expr, pargs[k].pass, ev1.st)
         IN IF ~ev1.ok \/ ~ev.ok
            THEN [ok |-> FALSE, st |-> st, vals |-> vals, log |-> log]
            ELSE EvalArgsTwice(pargs, k + 1, ev.st, Append(vals, ev.val),
                               log \o <<(<<"eval", k>>), (<<"eval", k>>)>>)

RECURSIVE EvalArgs(_, _, _, _, _)
\* The operands are evaluated once each, from the left, before anything is
\* rendered.
EvalArgs(pargs, k, st, vals, log) ==
    IF k > Len(pargs) THEN [ok |-> TRUE, st |-> st, vals |-> vals, log |-> log]
    ELSE LET ev == Evaluate(pargs[k].expr, pargs[k].pass, st)
         IN IF ~ev.ok
            THEN [ok |-> FALSE, st |-> st, vals |-> vals, log |-> log]
            ELSE EvalArgs(pargs, k + 1, ev.st, Append(vals, ev.val),
                          Append(log, <<"eval", k>>))

RECURSIVE RenderPieces(_, _, _, _, _, _)
\* writes the literal characters and the rendered operands in the order of
\* the format string
RenderPieces(pieces, p, vals, k, line, log) ==
    IF p > Len(pieces) THEN [line |-> line, log |-> log]
    ELSE IF pieces[p].kind = "lit"
    THEN RenderPieces(pieces, p + 1, vals, k, Append(line, pieces[p].c), log)
    ELSE RenderPieces(pieces, p + 1, vals, k + 1,
                      line \o Render(pieces[p].mode, vals[k]),
                      Append(log, <<"fmt", k>>))

Outcome(status, why, line, vals, log, st) ==
    [status |-> status, why |-> why, line |-> line, vals |-> vals,
     log |-> log, st |-> st]

Rejected(why, st) == Outcome("rejected", why, <<>>, <<>>, <<>>, st)

\* println!(fmt, operands): the format string is checked against the
\* operands when the call is compiled; a call that compiles evaluates its
\* operands and writes one line.
Println(fmt, pargs, st) ==
    LET parsed == ParseFormat(fmt, 1, <<>>)
        modes == ArgModes(parsed.pieces)
        ev == EvalArgs(pargs, 1, st, <<>>, <<>>)
        out == RenderPieces(parsed.pieces, 1, ev.vals, 1, <<>>, ev.log)
    IN IF ~parsed.ok THEN Rejected("format", st)
       ELSE IF Len(modes) # Len(pargs) THEN Rejected("arity", st)
       ELSE IF \E k \in 1..Len(modes) :
                  modes[k] = "display" /\
                  ~HasDisplay(TypeOf(pargs[k].expr))
            THEN Rejected("trait", st)
       ELSE IF ~BorrowOk(pargs) THEN Rejected("borrow", st)
       ELSE IF ~ev.ok THEN Rejected("moved", st)
       ELSE Outcome("printed", "", out.line, ev.vals, out.log, ev.st)

\* one call of trace!: the expansion, then the println! it expands to
Trace(c, st) ==
    LET x == Expand(c)
    IN IF x.shape = "none" THEN Rejected("no rule", st)
       ELSE Println(x.fmt, x.pargs, st)

(* ----------------------------- the program ----------------------------- *)

NoSite == [file |-> <<>>, line |-> 0]
NoCall == [pretty |-> FALSE, args |-> <<>>, comma |-> FALSE, site |-> NoSite]

\* what the caller holds between two calls: nothing of a call outlives it
Ready ==
    [pc |-> "ready", call |-> NoCall, shape |-> "none", why |-> "",
     line |-> <<>>, vals |-> <<>>, log |-> <<>>, n0 |-> 0]

\* number of incr(&mut n) among the arguments
Incrs(es) == Cardinality({k \in 1..Len(es) : es[k].id = "incr"})

Init ==
    /\ n = 0
    /\ string = [owned |-> TRUE, val |-> hey_chars]
    /\ rec = Ready

\* The caller reaches the call site c: the call is expanded and, when it
\* compiles, runs to the end of its println!.
TraceCall(c) ==
    /\ rec.pc = "ready"
    /\ n + Incrs(c.args) <= MaxN
    /\ LET r == Trace(c, Store(n, string))
       IN /\ n' = r.st.n
          /\ string' = r.st.string
          /\ rec' = [pc |-> r.status, call |-> c, shape |-> Expand(c).shape,
                     why |-> r.why, line |-> r.line, vals |-> r.vals,
                     log |-> r.log, n0 |-> n]

\* The caller goes on to its next statement.  A rejected call does not
\* compile: nothing follows it.
Continue ==
    /\ rec.pc = "printed"
    /\ rec' = Ready
    /\ UNCHANGED <<n, string>>

Next ==
    \/ \E c \in Calls : TraceCall(c)
    \/ Continue

Spec == Init /\ [][Next]_vars

(* ------------------------------ properties ----------------------------- *)

RECURSIVE Join(_, _)
\* the strings of ss with sep between neighbours
Join(ss, sep) ==
    IF ss = <<>> THEN <<>>
    ELSE IF Len(ss) = 1 THEN ss[1]
    ELSE ss[1] \o sep \o Join(Tail(ss), sep)

Texts(es) == [k \in 1..Len(es) |-> es[k].text]
Rendered(mode, vs) == [k \in 1..Len(vs) |-> Render(mode, vs[k])]

EndsWith(cs, suffix) ==
    /\ Len(suffix) <= Len(cs)
    /\ SubSeq(cs, Len(cs) - Len(suffix) + 1, Len(cs)) = suffix
StartsWith(cs, prefix) ==
    /\ Len(prefix) <= Len(cs)
    /\ SubSeq(cs, 1, Len(prefix)) = prefix
DropLast(cs, k) == SubSeq(cs, 1, Len(cs) - k)

Called == rec.pc # "ready"
Printed == rec.pc = "printed"
Args == rec.call.args
NArgs == Len(rec.call.args)

\* the line the general shape is specified to print
GeneralLine(es, vs, mode) ==
    Join(Texts(es), <<",", " ">>) \o <<":", " ">> \o Join(Rendered(mode, vs), <<" ">>)

ModeOf(c) == IF c.pretty THEN "pretty" ELSE "debug"

\* C1: a compact call of the general shape prints the source texts joined
\* by ", ", then ": ", then the values joined by one space, and nothing else.
C1_JoinCorrectness ==
    (Printed /\ rec.shape = "general" /\ ~rec.call.pretty)
        => rec.line = GeneralLine(Args, rec.vals, "debug")

EvalEvents == SelectSeq(rec.log, LAMBDA ev : ev[1] = "eval")

\* C2: a call that runs evaluates each argument exactly once, from the
\* left, before anything is rendered; the counter grows by the number of
\* incr(&mut n) occurrences in the argument list.
C2_SingleEval ==
    (Printed /\ NArgs >= 1) =>
        /\ EvalEvents = [k \in 1..NArgs |-> <<"eval", k>>]
        /\ \A i, j \in 1..Len(rec.log) :
              (i < j /\ rec.log[j][1] = "eval") => rec.log[i][1] = "eval"
        /\ Len(rec.vals) = NArgs
        /\ n = rec.n0 + Incrs(Args)

C2_Witness ==
    /\ Printed
    /\ Args = <<e_incr, e_incr>>
    /\ n = rec.n0 + 2
    /\ \E j \in 1..Len(rec.log) : rec.log[j][1] = "fmt"

\* C3: in the general shape the text segment is the verbatim source text
\* of the arguments whatever characters it holds: the text is never read as
\* a formatting directive, so no call is turned down for its text and the
\* values rendered are the arguments, one each, in order.
C3_TextIsLiteral ==
    (Called /\ rec.shape = "general") =>
        /\ rec.why \notin {"format", "arity", "trait"}
        /\ Printed =>
              /\ StartsWith(rec.line, Join(Texts(Args), <<",", " ">>) \o <<":">>)
              /\ SelectSeq(rec.log, LAMBDA ev : ev[1] = "fmt")
                    = [k \in 1..NArgs |-> <<"fmt", k>>]

C5_LabelOnlyForStringLiteral ==
    /\ (Called /\ rec.shape = "label") => (NArgs = 1 /\ IsStringLiteral(Args[1]))
    /\ (Printed /\ NArgs = 1 /\ ~IsStringLiteral(Args[1])) =>
          /\ rec.shape = "general"
          /\ rec.line = GeneralLine(Args, rec.vals, ModeOf(rec.call))

\* the location as the user reads it
SiteText(site) == File \o <<":">> \o DecStr(site.line)

IsPrettyEmpty(c) == c.pretty /\ c.args = <<>> /\ ~c.comma
IsLabelPlusMore(c) == Len(c.args) >= 2 /\ IsStringLiteral(c.args[1])

\* C7 (as claimed): trace!(#) and a call that combines a string-literal
\* label with further arguments match no rule of the macro.
C7_MalformedRejected ==
    (Called /\ (IsPrettyEmpty(rec.call) \/ IsLabelPlusMore(rec.call)))
        => (rec.pc = "rejected" /\ rec.why = "no rule")

\* C7 (amended): neither shape is turned down by the macro: trace!(#)
\* matches the rule (#) and prints "<file>:<line>"; a call that starts with
\* a string literal and has further arguments matches the general rule and
\* is dispatched to the general shape, e.g. two "hello" literals print
\* "hello", "hello": "hello" "hello".
C7_MalformedAccepted ==
    /\ (Called /\ IsPrettyEmpty(rec.call)) =>
          (Printed /\ rec.shape = "line" /\ rec.line = SiteText(rec.call.site))
    /\ (Called /\ IsLabelPlusMore(rec.call)) =>
          (rec.shape = "general" /\ rec.why # "no rule")
    /\ (Called /\ Args = <<e_lit_hello, e_lit_hello>> /\ ~rec.call.pretty) =>
          /\ Printed
          /\ rec.line = <<Quote>> \o hello_chars \o <<Quote, ",", " ", Quote>>
                         \o hello_chars \o <<Quote, ":", " ", Quote>>
                         \o hello_chars \o <<Quote, " ", Quote>>
                         \o hello_chars \o <<Quote>>

C7_Witness ==
    /\ Printed
    /\ Args = <<e_lit_hello, e_lit_hello>>
    /\ ~rec.call.pretty
    /\ rec.shape = "general"

\* C8: trace! only borrows: the non-Copy variable `string` is owned by the
\* caller and unchanged after every call, and no call is turned down
\* because an earlier use moved it.
C8_NoMove ==
    /\ string = [owned |-> TRUE, val |-> hey_chars]
    /\ rec.why # "moved"

C8_Witness ==
    /\ Printed
    /\ Args = <<e_string, e_string>>
    /\ rec.n0 > 0
    /\ string.owned

\* the same call without its #, made in the state the call was made in
CompactTwin == Trace([rec.call EXCEPT !.pretty = FALSE], Store(rec.n0, string))

NoCommaCall == [rec.call EXCEPT !.comma = FALSE]
NoCommaTwin == Trace(NoCommaCall, Store(rec.n0, string))

\* C10: a trailing comma after the last of N >= 1 arguments changes
\* neither the shape taken nor the line printed.
C10_TrailingCommaNeutral ==
    (Called /\ rec.call.comma /\ NArgs >= 1) =>
        /\ rec.shape = Expand(NoCommaCall).shape
        /\ rec.pc = NoCommaTwin.status
        /\ rec.line = NoCommaTwin.line

====
